---- MODULE Spec2Model ----
(***************************************************************************)
(* Home Supply Manager: the product coordinator (the in-memory mapping of  *)
(* product records, its persistent store and its mutation verbs) and the   *)
(* adapters that call it, as a state machine.                              *)
(*                                                                         *)
(* Python values are modelled as follows.                                  *)
(*   dict            a function whose DOMAIN is the set of present keys    *)
(*   str (a name or  a tuple of one-character strings, so that the slug    *)
(*     a product id)   of a name is computed character by character        *)
(*   str (ISO date)  the tuple <<year, month, day>> of its three fields    *)
(*   date            its proleptic Gregorian ordinal (date.toordinal())    *)
(*   None            NoneInt in an integer field, NoneStr in a date field  *)
(***************************************************************************)
EXTENDS Integers, Sequences, FiniteSets, TLC

(***************************************************************************)
(* Bounds of the model.                                                    *)
(***************************************************************************)
MaxStock == 3       \* add_stock is not called beyond this stock level
MaxQty == 2         \* largest quantity a service call carries
MaxCalls == 2       \* mutation calls in flight at once
MaxTicks == 1       \* days the clock advances
MaxFailures == 1    \* writes of the store that fail
MaxEntries == 3     \* config entries of the domain

(***************************************************************************)
(* const.py                                                                *)
(***************************************************************************)
CONF_PRODUCT_NAME == "product_name"
CONF_STOCK_QUANTITY == "stock_quantity"
CONF_REPLACEMENT_INTERVAL_DAYS == "replacement_interval_days"
CONF_LAST_REPLACEMENT_DATE == "last_replacement_date"
CONF_PRODUCT_ID == "product_id"
\* config_flow.py and sensor.py import these four from const.py, which does
\* not define them; the key strings are the ones the spec's data model names.
CONF_TRACK_STOCK == "track_stock"
CONF_IS_CYCLICAL == "is_cyclical"
DEFAULT_STOCK_QUANTITY == 1
DEFAULT_REPLACEMENT_INTERVAL_DAYS == 30

NoneInt == -1
NoneStr == <<>>

Max0(n) == IF n < 0 THEN 0 ELSE n

(***************************************************************************)
(* dict.get(key, default) and dict.update(other).                          *)
(***************************************************************************)
Get(d, k, default) == IF k \in DOMAIN d THEN d[k] ELSE default

DictUpdate(d, u) ==
    [k \in (DOMAIN d) \cup (DOMAIN u) |-> IF k \in DOMAIN u THEN u[k] ELSE d[k]]

DictSet(d, k, v) == DictUpdate(d, k :> v)

DictDel(d, k) == [x \in (DOMAIN d) \ {k} |-> d[x]]

EmptyDict == <<>>

(***************************************************************************)
(* datetime.date: ordinal <-> (year, month, day), as CPython computes it.  *)
(***************************************************************************)
IsLeap(y) == (y % 4 = 0) /\ ((y % 100 # 0) \/ (y % 400 = 0))

DaysInMonth(y, m) ==
    IF m = 2 THEN (IF IsLeap(y) THEN 29 ELSE 28)
    ELSE IF m \in {4, 6, 9, 11} THEN 30 ELSE 31

RECURSIVE DaysBeforeMonth(_, _)
DaysBeforeMonth(y, m) ==
    IF m <= 1 THEN 0 ELSE DaysBeforeMonth(y, m - 1) + DaysInMonth(y, m - 1)

DaysBeforeYear(y) ==
    LET p == y - 1 IN p * 365 + (p \div 4) - (p \div 100) + (p \div 400)

ToOrdinal(y, m, d) == DaysBeforeYear(y) + DaysBeforeMonth(y, m) + d

RECURSIVE MonthOf(_, _, _)
\* the month m >= from of year y that holds the n-th day (0-based) of the year
MonthOf(y, n, from) ==
    IF n < DaysBeforeMonth(y, from + 1) THEN from ELSE MonthOf(y, n, from + 1)

FromOrdinal(o) ==
    LET n0 == o - 1
        n400 == n0 \div 146097
        r400 == n0 % 146097
        n100 == r400 \div 36524
        r100 == r400 % 36524
        n4 == r100 \div 1461
        r4 == r100 % 1461
        n1 == r4 \div 365
        r1 == r4 % 365
        y == n400 * 400 + n100 * 100 + n4 * 4 + n1 + 1
    IN  IF n1 = 4 \/ n100 = 4
        THEN <<y - 1, 12, 31>>
        ELSE LET m == MonthOf(y, r1, 1)
             IN <<y, m, r1 - DaysBeforeMonth(y, m) + 1>>

\* date.isoformat(): the string "YYYY-MM-DD" as its three fields
IsoFormat(o) == FromOrdinal(o)

\* datetime.fromisoformat(s) succeeds (does not raise ValueError)
IsoParses(s) ==
    /\ Len(s) = 3
    /\ s[1] \in 1..9999
    /\ s[2] \in 1..12
    /\ s[3] \in 1..DaysInMonth(s[1], s[2])

\* datetime.fromisoformat(s).date(), where it parses
FromIsoFormat(s) == ToOrdinal(s[1], s[2], s[3])

(***************************************************************************)
(* config_flow.py: the product id derived from the product name, and the   *)
(* data of the config entry the creation flow makes.                       *)
(***************************************************************************)
\* str.lower() of one character
Lower(c) == IF c = "A" THEN "a" ELSE IF c = "B" THEN "b" ELSE IF c = "T" THEN "t" ELSE c

\* str.isalnum() of one character
IsAlnum(c) == c \in {"A", "B", "T", "a", "b", "t", "p", "x", "1"}

RECURSIVE Slug(_)
Slug(name) ==
    IF name = <<>> THEN <<>>
    ELSE LET c0 == Lower(Head(name))
             c == IF c0 = " " THEN "_" ELSE c0
         IN  IF IsAlnum(c) \/ c = "_" THEN <<c>> \o Slug(Tail(name)) ELSE Slug(Tail(name))

\* async_step_user without stock tracking and without a schedule
SimpleEntryData(name) ==
    (CONF_PRODUCT_ID :> Slug(name)) @@ (CONF_PRODUCT_NAME :> name)
    @@ (CONF_STOCK_QUANTITY :> DEFAULT_STOCK_QUANTITY)
    @@ (CONF_TRACK_STOCK :> FALSE) @@ (CONF_IS_CYCLICAL :> FALSE)

\* async_step_settings: in is the settings form's input, a dict
SettingsEntryData(name, track_stock, is_cyclical, in) ==
    LET data == (CONF_PRODUCT_ID :> Slug(name)) @@ (CONF_PRODUCT_NAME :> name)
                @@ (CONF_TRACK_STOCK :> track_stock) @@ (CONF_IS_CYCLICAL :> is_cyclical)
                @@ (CONF_STOCK_QUANTITY :> Get(in, CONF_STOCK_QUANTITY, DEFAULT_STOCK_QUANTITY))
    IN  IF is_cyclical
        THEN data @@ (CONF_REPLACEMENT_INTERVAL_DAYS :> in[CONF_REPLACEMENT_INTERVAL_DAYS])
                  @@ (CONF_LAST_REPLACEMENT_DATE :> in[CONF_LAST_REPLACEMENT_DATE])
        ELSE data

(***************************************************************************)
(* Inputs of the model.                                                    *)
(***************************************************************************)
NameAB == <<"A", " ", "B">>
UnknownId == <<"x">>
Today0 == ToOrdinal(2024, 1, 15)
Date0 == <<2024, 1, 1>>

\* the config entries the model starts from: a non-cyclical product without
\* stock tracking, and a cyclical product with tracked stock
EntryInputs ==
    { SimpleEntryData(NameAB),
      SettingsEntryData(NameAB, TRUE, TRUE,
          (CONF_STOCK_QUANTITY :> MaxStock)
          @@ (CONF_REPLACEMENT_INTERVAL_DAYS :> DEFAULT_REPLACEMENT_INTERVAL_DAYS)
          @@ (CONF_LAST_REPLACEMENT_DATE :> Date0)) }

\* the product ids the verbs are called with
IdInputs == {Slug(NameAB), UnknownId}

\* cv.positive_int accepts every integer >= 0
Quantities == 0..MaxQty

\* the field sets update_product is called with
UpdateInputs == { (CONF_STOCK_QUANTITY :> 0) }

(***************************************************************************)
(* State.                                                                  *)
(***************************************************************************)
VARIABLES
    up,         \* the config entry is set up: the coordinator is in hass.data
    entry,      \* ConfigEntry.data
    products,   \* SupplyManagerCoordinator._products (and .data, the same dict)
    stored,     \* what Store.async_load would return; <<>> when nothing is stored
    shown,      \* the mapping the listeners rendered when last notified
    saving,     \* the mutation calls in flight that await _async_save_products
    refreshing, \* the mutation calls in flight that await async_refresh
    entities,   \* the product ids the platforms made entities for at set-up
    today,      \* datetime.now().date(), as an ordinal
    failures,   \* the writes of the store that have failed
    last,       \* the last call: what it did in memory, or the line it logged
    removed,    \* the ids whose removal has been persisted, not added since
    configured, \* the data of the config entries of the domain, in order of creation
    in_progress, \* the _user_input of the creation flows that await their settings step
    days_sensors, \* the product ids a days-until-replacement sensor was made for at set-up
    reading     \* what the last read of a days-until-replacement sensor gave

vars == <<up, entry, products, stored, shown, saving, refreshing, entities, today, failures, last, removed,
          configured, in_progress, days_sensors, reading>>

\* last.old is the stock of last.id before the call; last.undoes says that the
\* call is a remove_stock and the call before it was an add_stock of the same
\* id and quantity, and last.orig is then the stock before that add_stock
NoCall == [op |-> "none", id |-> <<>>, quantity |-> 0, old |-> 0, undoes |-> FALSE, orig |-> 0]

\* no sensor has been read
NoReading == [id |-> <<>>, outcome |-> "unread", days |-> 0]

\* DataUpdateCoordinator.data: _async_update_data returns self._products itself
CoordData == products

Init ==
    /\ up = FALSE
    /\ entry \in EntryInputs
    /\ products = EmptyDict
    /\ stored = <<>>
    /\ shown = EmptyDict
    /\ saving = 0
    /\ refreshing = 0
    /\ entities = {}
    /\ today = Today0
    /\ failures = 0
    /\ last = NoCall
    /\ removed = {}
    /\ configured = <<entry>>
    /\ in_progress = {}
    /\ days_sensors = {}
    /\ reading = NoReading

(***************************************************************************)
(* coordinator.py: the store.                                              *)
(***************************************************************************)
\* the document _async_save_products hands to Store.async_save: the dict
\* holds the mapping itself, so what is written is the mapping as it is when
\* the write happens
SaveDocument(p) == "products" :> p

\* Store.async_save: the write succeeds ("persist"), or fails
\* ("persist_failed"); a failed write is logged by the store and async_save
\* returns normally, the stored document as it was
CanWrite(outcome) == outcome = "persist" \/ failures < MaxFailures

\* Variant: the write is dropped
WrittenNothing(outcome, p) == stored

Written(outcome, p) == IF outcome = "persist" THEN SaveDocument(p) ELSE stored

Failed(outcome) == IF outcome = "persist_failed" THEN failures + 1 ELSE failures

\* async_config_entry_first_refresh, lines 50-52: the mapping loaded
LoadProducts(stored_data) ==
    IF stored_data # <<>> THEN Get(stored_data, "products", EmptyDict) ELSE EmptyDict

\* the ids of the mapping last written
StoredIds == DOMAIN LoadProducts(stored)

\* the ids whose removal a write of p makes durable
RemovedBy(outcome, p) ==
    IF outcome = "persist" THEN removed \cup (StoredIds \ DOMAIN p) ELSE removed

\* async_config_entry_first_refresh, lines 58-68: the record imported from the
\* config entry; dict.get gives None for a key the entry does not hold
MigratedRecord(data) ==
    (CONF_PRODUCT_ID :> data[CONF_PRODUCT_ID])
    @@ (CONF_PRODUCT_NAME :> Get(data, CONF_PRODUCT_NAME, NoneStr))
    @@ (CONF_STOCK_QUANTITY :> Get(data, CONF_STOCK_QUANTITY, NoneInt))
    @@ (CONF_REPLACEMENT_INTERVAL_DAYS :> Get(data, CONF_REPLACEMENT_INTERVAL_DAYS, NoneInt))
    @@ (CONF_LAST_REPLACEMENT_DATE :> Get(data, CONF_LAST_REPLACEMENT_DATE, NoneStr))

\* async_config_entry_first_refresh, line 56: the import happens
NeedsMigration(data, loaded) ==
    /\ Get(data, CONF_PRODUCT_ID, <<>>) # <<>>
    /\ loaded = EmptyDict

\* sensor.py async_setup_entry, lines 49-58: the products that get a
\* days-until-replacement sensor; a record without the flag counts as cyclical
DaysSensorIds(p) == {id \in DOMAIN p : Get(p[id], CONF_IS_CYCLICAL, TRUE)}

\* __init__.py async_setup_entry: a new coordinator, its first refresh (load,
\* import, the first notification), the platforms' entities, the services;
\* outcome is that of the write the import makes
async_setup_entry(outcome) ==
    /\ ~up
    /\ LET loaded == LoadProducts(stored)
       IN  IF NeedsMigration(entry, loaded)
           THEN LET p == entry[CONF_PRODUCT_ID] :> MigratedRecord(entry)
                IN  /\ CanWrite(outcome)
                    /\ products' = p
                    /\ stored' = Written(outcome, p)
                    /\ failures' = Failed(outcome)
           ELSE /\ outcome = "persist"
                /\ products' = loaded
                /\ stored' = stored
                /\ failures' = failures
    /\ shown' = products'
    /\ entities' = DOMAIN products'
    /\ days_sensors' = DaysSensorIds(products')
    /\ up' = TRUE
    /\ UNCHANGED <<entry, saving, refreshing, today, last, removed,
                   configured, in_progress, reading>>

\* the process stops (or the entry is unloaded): the coordinator, its mapping
\* and the calls in flight are gone; the stored document stays
Stop ==
    /\ up
    /\ up' = FALSE
    /\ products' = EmptyDict
    /\ shown' = EmptyDict
    /\ saving' = 0
    /\ refreshing' = 0
    /\ entities' = {}
    /\ days_sensors' = {}
    /\ last' = NoCall
    /\ UNCHANGED <<entry, stored, today, failures, removed,
                   configured, in_progress, reading>>

Tick ==
    /\ today < Today0 + MaxTicks
    /\ today' = today + 1
    /\ UNCHANGED <<up, entry, products, stored, shown, saving, refreshing, entities, failures, last, removed,
                   configured, in_progress, days_sensors, reading>>

(***************************************************************************)
(* coordinator.py: the mutation verbs.  A call runs from its start to its  *)
(* first await in one step (the in-memory update); it then awaits the save *)
(* and then the refresh, which notifies the listeners, and returns.  Other *)
(* calls run while it waits.                                               *)
(***************************************************************************)
\* a new call can start
CanCall == up /\ saving + refreshing < MaxCalls

Stock(p, id) == Get(Get(p, id, EmptyDict), CONF_STOCK_QUANTITY, 0)

\* the call has updated the mapping to p and now awaits the save
Updated(p, op, id, quantity) ==
    /\ products' = p
    /\ saving' = saving + 1
    /\ LET undoes == /\ op = "remove_stock"
                      /\ last.op = "add_stock"
                      /\ last.id = id
                      /\ last.quantity = quantity
       IN  last' = [op |-> op, id |-> id, quantity |-> quantity,
                    old |-> Stock(products, id),
                    undoes |-> undoes, orig |-> IF undoes THEN last.old ELSE 0]
    /\ removed' = IF op = "add_product" THEN removed \ {id} ELSE removed
    /\ UNCHANGED <<up, entry, stored, shown, refreshing, entities, today, failures,
                   configured, in_progress, days_sensors, reading>>

\* the call has returned at once, having written at most a log line
ReturnedEarly(line, id) ==
    /\ last' = [NoCall EXCEPT !.op = line, !.id = id]
    /\ UNCHANGED <<up, entry, products, stored, shown, saving, refreshing, entities,
                   today, failures, removed,
                   configured, in_progress, days_sensors, reading>>

\* Variant: the error is logged and the verb goes on to save and refresh
NotFoundFallsThrough(id) == Updated(products, "error", id, 0)

\* _LOGGER.error("Product %s not found", product_id); return
NotFound(id) == ReturnedEarly("error", id)

\* Variant: the stock is decremented without the floor
ReplacedRecordUnclamped(rec, day) ==
    LET current_stock == Get(rec, CONF_STOCK_QUANTITY, 0)
    IN  DictSet(DictSet(rec, CONF_STOCK_QUANTITY, current_stock - 1),
                CONF_LAST_REPLACEMENT_DATE, IsoFormat(day))

\* Variant: nothing is replaced when there is no stock
ReplacedRecordRefusedAtZero(rec, day) ==
    LET current_stock == Get(rec, CONF_STOCK_QUANTITY, 0)
    IN  IF current_stock <= 0
        THEN rec
        ELSE DictSet(DictSet(rec, CONF_STOCK_QUANTITY, current_stock - 1),
                     CONF_LAST_REPLACEMENT_DATE, IsoFormat(day))

\* replace_item, lines 107-111
ReplacedRecord(rec, day) ==
    LET current_stock == Get(rec, CONF_STOCK_QUANTITY, 0)
        new_stock == Max0(current_stock - 1)
    IN  DictSet(DictSet(rec, CONF_STOCK_QUANTITY, new_stock),
                CONF_LAST_REPLACEMENT_DATE, IsoFormat(day))

replace_item(id) ==
    IF id \notin DOMAIN products
    THEN NotFound(id)
    ELSE Updated(DictSet(products, id, ReplacedRecord(products[id], today)),
                 "replace_item", id, 1)

\* Variant: the quantity replaces the stock
StockSetRecord(rec, quantity) == DictSet(rec, CONF_STOCK_QUANTITY, quantity)

\* Variant: the quantity is added to the stock the listeners were last shown
StockAddedRecordStale(rec, quantity) ==
    DictSet(rec, CONF_STOCK_QUANTITY, Stock(shown, rec[CONF_PRODUCT_ID]) + quantity)

\* add_stock, lines 122-123
StockAddedRecord(rec, quantity) ==
    LET current_stock == Get(rec, CONF_STOCK_QUANTITY, 0)
    IN  DictSet(rec, CONF_STOCK_QUANTITY, current_stock + quantity)

add_stock(id, quantity) ==
    IF id \notin DOMAIN products
    THEN NotFound(id)
    ELSE /\ Stock(products, id) + quantity <= MaxStock
         /\ Updated(DictSet(products, id, StockAddedRecord(products[id], quantity)),
                    "add_stock", id, quantity)

\* Variant: the stock is reduced without the floor
StockRemovedRecordUnclamped(rec, quantity) ==
    LET current_stock == Get(rec, CONF_STOCK_QUANTITY, 0)
    IN  DictSet(rec, CONF_STOCK_QUANTITY, current_stock - quantity)

\* remove_stock, lines 134-136
StockRemovedRecord(rec, quantity) ==
    LET current_stock == Get(rec, CONF_STOCK_QUANTITY, 0)
        new_stock == Max0(current_stock - quantity)
    IN  DictSet(rec, CONF_STOCK_QUANTITY, new_stock)

remove_stock(id, quantity) ==
    IF id \notin DOMAIN products
    THEN NotFound(id)
    ELSE Updated(DictSet(products, id, StockRemovedRecord(products[id], quantity)),
                 "remove_stock", id, quantity)

\* Variant: the updates replace the record
update_product_replaces(id, updates) ==
    IF id \notin DOMAIN products
    THEN NotFound(id)
    ELSE Updated(DictSet(products, id, updates), "update_product", id, 0)

update_product(id, updates) ==
    IF id \notin DOMAIN products
    THEN NotFound(id)
    ELSE Updated(DictSet(products, id, DictUpdate(products[id], updates)),
                 "update_product", id, 0)

add_product(product_data) ==
    LET product_id == product_data[CONF_PRODUCT_ID]
    IN  Updated(DictSet(products, product_id, product_data), "add_product", product_id, 0)

remove_product(id) ==
    IF id \in DOMAIN products
    THEN Updated(DictDel(products, id), "remove_product", id, 0)
    ELSE ReturnedEarly("nothing", id)

\* Variant: a failed write raises out of the verb: the call ends without its refresh
PersistRaises(outcome) ==
    /\ up
    /\ saving > 0
    /\ CanWrite(outcome)
    /\ stored' = Written(outcome, products)
    /\ failures' = Failed(outcome)
    /\ removed' = RemovedBy(outcome, products)
    /\ saving' = saving - 1
    /\ refreshing' = IF outcome = "persist" THEN refreshing + 1 ELSE refreshing
    /\ UNCHANGED <<up, entry, products, shown, entities, today, last,
                   configured, in_progress, days_sensors, reading>>

\* await self._async_save_products() of a call in flight
Persist(outcome) ==
    /\ up
    /\ saving > 0
    /\ CanWrite(outcome)
    /\ stored' = Written(outcome, products)
    /\ failures' = Failed(outcome)
    /\ removed' = RemovedBy(outcome, products)
    /\ saving' = saving - 1
    /\ refreshing' = refreshing + 1
    /\ UNCHANGED <<up, entry, products, shown, entities, today, last,
                   configured, in_progress, days_sensors, reading>>

\* Variant: the refresh tells no listener
NotifyNobody ==
    /\ up
    /\ refreshing > 0
    /\ refreshing' = refreshing - 1
    /\ UNCHANGED <<up, entry, products, stored, shown, saving, entities, today, failures,
                   last, removed,
                   configured, in_progress, days_sensors, reading>>

\* await self.async_refresh() of a call in flight: the data is fetched, the
\* listeners are told and render it, and the call returns
Notify ==
    /\ up
    /\ refreshing > 0
    /\ shown' = CoordData
    /\ refreshing' = refreshing - 1
    /\ UNCHANGED <<up, entry, products, stored, saving, entities, today, failures, last, removed,
                   configured, in_progress, days_sensors, reading>>

(***************************************************************************)
(* __init__.py: the services.  Each looks the coordinator up by the id.    *)
(***************************************************************************)
\* the loop over hass.data[DOMAIN]: a coordinator holding the id was found
Found(id) == id \in DOMAIN CoordData

handle_replace_item(id) ==
    IF Found(id) THEN replace_item(id) ELSE NotFound(id)

handle_add_stock(id, quantity) ==
    IF Found(id) THEN add_stock(id, quantity) ELSE NotFound(id)

handle_remove_stock(id, quantity) ==
    IF Found(id) THEN remove_stock(id, quantity) ELSE NotFound(id)

handle_update_product(id, updates) ==
    IF Found(id) THEN update_product(id, updates) ELSE NotFound(id)

(***************************************************************************)
(* button.py: the replace button of the entity made for id.                *)
(***************************************************************************)
\* Variant: the button replaces the item whatever the stock
async_press_unguarded(id) == replace_item(id)

async_press(id) ==
    LET product == Get(CoordData, id, EmptyDict)
        stock == Get(product, CONF_STOCK_QUANTITY, 0)
    IN  IF stock <= 0
        THEN ReturnedEarly("warning", id)
        ELSE replace_item(id)

ServiceCall ==
    \E id \in IdInputs :
        \/ handle_replace_item(id)
        \/ \E q \in Quantities : handle_add_stock(id, q)
        \/ \E q \in Quantities : handle_remove_stock(id, q)
        \/ \E u \in UpdateInputs : handle_update_product(id, u)

ButtonPress == \E id \in entities : async_press(id)

\* the coordinator's add_product and remove_product, which no adapter calls;
\* add_product with the record of the entry's product
RemoveProductCall == \E id \in IdInputs : remove_product(id)

AddProductCall == add_product(MigratedRecord(entry))

\* the calls the adapters and the coordinator's users make
Call ==
    /\ CanCall
    /\ \/ ServiceCall
       \/ ButtonPress
       \/ RemoveProductCall
       \/ AddProductCall

\* every write of the store succeeds
Next ==
    \/ async_setup_entry("persist")
    \/ Stop
    \/ Tick
    \/ Call
    \/ Persist("persist")
    \/ Notify

Spec == Init /\ [][Next]_vars

\* writes of the store may fail; the clock stands still
FaultyNext ==
    \/ async_setup_entry("persist")
    \/ async_setup_entry("persist_failed")
    \/ Stop
    \/ Call
    \/ Persist("persist")
    \/ Persist("persist_failed")
    \/ Notify

FaultySpec == Init /\ [][FaultyNext]_vars

(***************************************************************************)
(* The field updates: the update_product service with every field its      *)
(* schema admits, and the options flow.  The calls of this specification   *)
(* run one at a time: a call's update of the mapping is one step whatever  *)
(* else is in flight, so the records that can be reached are the same.     *)
(***************************************************************************)
NameT == <<"T">>

\* "2024-02-30": a string that datetime.fromisoformat rejects
BadDate == <<2024, 2, 30>>

\* "2023-12-31"
Date1 == <<2023, 12, 31>>

NameInputs == {NameAB, NameT}

\* cv.string admits every string
DateInputs == {Date1, BadDate}

\* cv.positive_int admits every integer >= 0
IntervalInputs == {0, 10}

\* the dicts that hold key k with one of the values vs, or do not hold it
Optional(k, vs) == {EmptyDict} \cup {k :> v : v \in vs}

\* call.data of the update_product service: the product id and any of the
\* optional keys, each with a value its validator admits
UpdateCallData ==
    { DictUpdate(DictUpdate(DictUpdate(DictUpdate(CONF_PRODUCT_ID :> id, n), q), i), d) :
        id \in IdInputs,
        n \in Optional(CONF_PRODUCT_NAME, {NameT}),
        q \in Optional(CONF_STOCK_QUANTITY, {0}),
        i \in Optional(CONF_REPLACEMENT_INTERVAL_DAYS, IntervalInputs),
        d \in Optional(CONF_LAST_REPLACEMENT_DATE, DateInputs) }

\* handle_update_product, lines 119-128: the updates taken from call.data
ServiceUpdates(data) ==
    [k \in (DOMAIN data) \cap {CONF_PRODUCT_NAME, CONF_STOCK_QUANTITY,
                               CONF_REPLACEMENT_INTERVAL_DAYS, CONF_LAST_REPLACEMENT_DATE}
       |-> data[k]]

UpdateServiceCall ==
    \E data \in UpdateCallData :
        handle_update_product(data[CONF_PRODUCT_ID], ServiceUpdates(data))

ReplaceServiceCall == \E id \in IdInputs : handle_replace_item(id)

\* the update_product service, one call at a time
UpdateCall ==
    /\ up
    /\ saving + refreshing = 0
    /\ UpdateServiceCall

UpdateNext ==
    \/ async_setup_entry("persist")
    \/ Stop
    \/ UpdateCall
    \/ Persist("persist")
    \/ Notify

UpdateSpec == Init /\ [][UpdateNext]_vars

(***************************************************************************)
(* config_flow.py: the options flow of the entry's product.                *)
(***************************************************************************)
\* async_step_init, lines 194-202: the update for a product without stock
\* tracking and without a schedule
OptionsSimpleData(name) ==
    (CONF_PRODUCT_NAME :> name)
    @@ (CONF_STOCK_QUANTITY :> DEFAULT_STOCK_QUANTITY)
    @@ (CONF_TRACK_STOCK :> FALSE) @@ (CONF_IS_CYCLICAL :> FALSE)

\* async_step_settings, lines 255-264: in is the settings form's input
OptionsSettingsData(name, track_stock, is_cyclical, in) ==
    LET data == (CONF_PRODUCT_NAME :> name)
                @@ (CONF_TRACK_STOCK :> track_stock) @@ (CONF_IS_CYCLICAL :> is_cyclical)
                @@ (CONF_STOCK_QUANTITY :> Get(in, CONF_STOCK_QUANTITY, DEFAULT_STOCK_QUANTITY))
    IN  IF is_cyclical
        THEN data @@ (CONF_REPLACEMENT_INTERVAL_DAYS :> in[CONF_REPLACEMENT_INTERVAL_DAYS])
                  @@ (CONF_LAST_REPLACEMENT_DATE :> in[CONF_LAST_REPLACEMENT_DATE])
        ELSE data

\* the inputs the settings form admits (lines 273-294; the creation flow's
\* form, lines 138-144, admits the same): the stock if it is tracked, the
\* interval and the date if the product is cyclical
SettingsInputs(track_stock, is_cyclical) ==
    { DictUpdate(q, c) :
        q \in IF track_stock
              THEN {CONF_STOCK_QUANTITY :> v : v \in {0, MaxStock}}
              ELSE {EmptyDict},
        c \in IF is_cyclical
              THEN {(CONF_REPLACEMENT_INTERVAL_DAYS :> i) @@ (CONF_LAST_REPLACEMENT_DATE :> d) :
                      i \in IntervalInputs, d \in DateInputs}
              ELSE {EmptyDict} }

\* the options flow from its first form to its end: async_step_init and,
\* with stock tracking or a schedule, async_step_settings
OptionsFlow(name, track_stock, is_cyclical, in) ==
    LET product_id == Get(entry, CONF_PRODUCT_ID, <<>>)
    IN  IF product_id = <<>>
        THEN ReturnedEarly("no_product_id", product_id)
        ELSE IF ~(track_stock \/ is_cyclical)
        THEN update_product(product_id, OptionsSimpleData(name))
        ELSE IF is_cyclical /\ ~IsoParses(in[CONF_LAST_REPLACEMENT_DATE])
        THEN ReturnedEarly("invalid_date", product_id)
        ELSE update_product(product_id,
                            OptionsSettingsData(name, track_stock, is_cyclical, in))

OptionsFlowCall ==
    \E name \in NameInputs, track_stock \in BOOLEAN, is_cyclical \in BOOLEAN :
        \E in \in SettingsInputs(track_stock, is_cyclical) :
            OptionsFlow(name, track_stock, is_cyclical, in)

\* the calls that update fields, one at a time
FlowCall ==
    /\ up
    /\ saving + refreshing = 0
    /\ \/ UpdateServiceCall
       \/ ReplaceServiceCall
       \/ OptionsFlowCall

FlowNext ==
    \/ async_setup_entry("persist")
    \/ Stop
    \/ FlowCall
    \/ Persist("persist")
    \/ Notify

FlowSpec == Init /\ [][FlowNext]_vars

(***************************************************************************)
(* coordinator.py calculate_days_until_replacement and the sensor that     *)
(* reads it.                                                               *)
(***************************************************************************)
\* date.max, 9999-12-31: date + timedelta beyond it raises OverflowError
MaxDate == ToOrdinal(9999, 12, 31)

\* what a read gives: an integer, None, None after a logged error, or an
\* exception that the function does not catch
Days(n) == [outcome |-> "days", days |-> n]

Absent == [outcome |-> "none", days |-> 0]

AbsentLogged == [outcome |-> "none_logged", days |-> 0]

Raises(exception) == [outcome |-> exception, days |-> 0]

\* Variant: the days are counted from the next replacement back to today
calculate_days_since(p, product_id, now) ==
    IF product_id \notin DOMAIN p
    THEN Absent
    ELSE LET product == p[product_id]
             last_replacement_str == Get(product, CONF_LAST_REPLACEMENT_DATE, NoneStr)
             replacement_interval == Get(product, CONF_REPLACEMENT_INTERVAL_DAYS, NoneInt)
         IN  IF last_replacement_str = NoneStr \/ replacement_interval \in {NoneInt, 0}
             THEN Absent
             ELSE IF ~IsoParses(last_replacement_str)
             THEN AbsentLogged
             ELSE IF FromIsoFormat(last_replacement_str) + replacement_interval > MaxDate
             THEN Raises("OverflowError")
             ELSE Days(now - (FromIsoFormat(last_replacement_str) + replacement_interval))

\* lines 79-97; `not x` holds of None, of the empty string and of 0;
\* ValueError and TypeError are caught and logged, OverflowError is not
calculate_days_until_replacement(p, product_id, now) ==
    IF product_id \notin DOMAIN p
    THEN Absent
    ELSE LET product == p[product_id]
             last_replacement_str == Get(product, CONF_LAST_REPLACEMENT_DATE, NoneStr)
             replacement_interval == Get(product, CONF_REPLACEMENT_INTERVAL_DAYS, NoneInt)
         IN  IF last_replacement_str = NoneStr \/ replacement_interval \in {NoneInt, 0}
             THEN Absent
             ELSE IF ~IsoParses(last_replacement_str)
             THEN AbsentLogged
             ELSE LET last_replacement == FromIsoFormat(last_replacement_str)
                  IN  IF last_replacement + replacement_interval > MaxDate
                      THEN Raises("OverflowError")
                      ELSE LET next_replacement == last_replacement + replacement_interval
                               days_until == next_replacement - now
                           IN  Days(days_until)

\* sensor.py SupplyManagerDaysUntilReplacementSensor.native_value of the
\* sensor made for product_id
native_value(product_id) ==
    /\ up
    /\ product_id \in days_sensors
    /\ reading' = [id |-> product_id]
                  @@ calculate_days_until_replacement(products, product_id, today)
    /\ UNCHANGED <<up, entry, products, stored, shown, saving, refreshing, entities, today,
                   failures, last, removed, configured, in_progress, days_sensors>>

SensorRead == \E id \in days_sensors : native_value(id)

\* "2024-02-29"
LeapDate == <<2024, 2, 29>>

\* the dates and intervals the update_product service is called with
DaysDateInputs == {Date1, LeapDate, BadDate}

DaysIntervalInputs == {0, 10, 4000000}

DaysCallData ==
    { DictUpdate(DictUpdate(CONF_PRODUCT_ID :> Slug(NameAB), i), d) :
        i \in Optional(CONF_REPLACEMENT_INTERVAL_DAYS, DaysIntervalInputs),
        d \in Optional(CONF_LAST_REPLACEMENT_DATE, DaysDateInputs) }

DaysUpdateCall ==
    \E data \in DaysCallData :
        handle_update_product(data[CONF_PRODUCT_ID], ServiceUpdates(data))

\* the calls that set the schedule or remove the product, one at a time
DaysCall ==
    /\ up
    /\ saving + refreshing = 0
    /\ \/ DaysUpdateCall
       \/ RemoveProductCall

\* the schedule is set by the service and read by the sensor as the days pass
DaysNext ==
    \/ async_setup_entry("persist")
    \/ Tick
    \/ DaysCall
    \/ SensorRead
    \/ Persist("persist")
    \/ Notify

DaysSpec == Init /\ [][DaysNext]_vars

(***************************************************************************)
(* config_flow.py: the creation flow.  Each entry it creates is set up     *)
(* with a coordinator of its own; the coordinator of this model is that of *)
(* the first entry.                                                        *)
(***************************************************************************)
NameA_B == <<"A", "_", "B">>

\* the names typed into the first form
CreateNames == {NameAB, NameA_B, NameT}

\* the first form's input: vol fills in the defaults, so both flags are there
UserInputs ==
    { (CONF_PRODUCT_NAME :> name) @@ (CONF_TRACK_STOCK :> t) @@ (CONF_IS_CYCLICAL :> c) :
        name \in CreateNames, t \in BOOLEAN, c \in BOOLEAN }

\* the unique ids of the config entries of the domain
ConfiguredIds == {configured[i][CONF_PRODUCT_ID] : i \in 1..Len(configured)}

\* the unique ids of the flows in progress
ProgressIds == {Slug(f[CONF_PRODUCT_NAME]) : f \in in_progress}

\* async_create_entry
CreateEntry(data, progress) ==
    /\ Len(configured) < MaxEntries
    /\ configured' = Append(configured, data)
    /\ in_progress' = progress
    /\ last' = [NoCall EXCEPT !.op = "create_entry", !.id = data[CONF_PRODUCT_ID]]
    /\ UNCHANGED <<up, entry, products, stored, shown, saving, refreshing, entities, today,
                   failures, removed, days_sensors, reading>>

\* Variant: the flow does not ask whether the id is configured
async_step_user_unchecked(user_input) ==
    LET product_id == Slug(user_input[CONF_PRODUCT_NAME])
    IN  IF product_id \in ProgressIds
        THEN ReturnedEarly("already_in_progress", product_id)
        ELSE IF user_input[CONF_TRACK_STOCK] \/ user_input[CONF_IS_CYCLICAL]
        THEN /\ in_progress' = in_progress \cup {user_input}
             /\ last' = [NoCall EXCEPT !.op = "settings", !.id = product_id]
             /\ UNCHANGED <<up, entry, products, stored, shown, saving, refreshing, entities,
                            today, failures, removed, configured, days_sensors, reading>>
        ELSE CreateEntry(SimpleEntryData(user_input[CONF_PRODUCT_NAME]), in_progress)

\* SupplyManagerConfigFlow.async_step_user, lines 51-77: the id is the slug of
\* the name; async_set_unique_id aborts the flow when a flow with that id is
\* in progress, _abort_if_unique_id_configured when an entry has it
async_step_user(user_input) ==
    LET product_id == Slug(user_input[CONF_PRODUCT_NAME])
    IN  IF product_id \in ProgressIds
        THEN ReturnedEarly("already_in_progress", product_id)
        ELSE IF product_id \in ConfiguredIds
        THEN ReturnedEarly("already_configured", product_id)
        ELSE IF user_input[CONF_TRACK_STOCK] \/ user_input[CONF_IS_CYCLICAL]
        THEN /\ in_progress' = in_progress \cup {user_input}
             /\ last' = [NoCall EXCEPT !.op = "settings", !.id = product_id]
             /\ UNCHANGED <<up, entry, products, stored, shown, saving, refreshing, entities,
                            today, failures, removed, configured, days_sensors, reading>>
        ELSE CreateEntry(SimpleEntryData(user_input[CONF_PRODUCT_NAME]), in_progress)

\* SupplyManagerConfigFlow.async_step_settings, lines 106-136, of the flow
\* whose first form gave flow_input
async_step_settings(flow_input, user_input) ==
    LET is_cyclical == flow_input[CONF_IS_CYCLICAL]
    IN  IF is_cyclical /\ ~IsoParses(user_input[CONF_LAST_REPLACEMENT_DATE])
        THEN ReturnedEarly("invalid_date", Slug(flow_input[CONF_PRODUCT_NAME]))
        ELSE CreateEntry(SettingsEntryData(flow_input[CONF_PRODUCT_NAME],
                                           flow_input[CONF_TRACK_STOCK], is_cyclical, user_input),
                         in_progress \ {flow_input})

CreationFlow ==
    \/ \E user_input \in UserInputs : async_step_user(user_input)
    \/ \E flow_input \in in_progress :
          \E user_input \in SettingsInputs(flow_input[CONF_TRACK_STOCK],
                                           flow_input[CONF_IS_CYCLICAL]) :
              async_step_settings(flow_input, user_input)

\* the update_product service that supplies a name only
RenameCall ==
    /\ up
    /\ saving + refreshing = 0
    /\ \E id \in IdInputs, name \in NameInputs :
          handle_update_product(id, ServiceUpdates((CONF_PRODUCT_ID :> id)
                                                   @@ (CONF_PRODUCT_NAME :> name)))

\* products are created and renamed
CreateNext ==
    \/ async_setup_entry("persist")
    \/ Stop
    \/ CreationFlow
    \/ RenameCall
    \/ Persist("persist")
    \/ Notify

CreateSpec == Init /\ [][CreateNext]_vars

(***************************************************************************)
(* The properties.                                                         *)
(***************************************************************************)
Verbs == {"replace_item", "add_stock", "remove_stock", "update_product",
          "add_product", "remove_product"}

Clamped(n) == IF n >= 0 THEN n ELSE 0

\* C1: the stock quantity of every product of the mapping is an integer that
\* is never negative, whatever add_stock, remove_stock and replace_item calls
\* (and the other verbs) have been made.
C1_StockNeverNegative ==
    \A id \in DOMAIN products :
        /\ CONF_STOCK_QUANTITY \in DOMAIN products[id]
        /\ products[id][CONF_STOCK_QUANTITY] >= 0

\* a call that takes more than the stock holds has acted, and the stock is 0
C1_Witness ==
    /\ last.op \in {"remove_stock", "replace_item"}
    /\ last.old < last.quantity
    /\ last.id \in DOMAIN products
    /\ products[last.id][CONF_STOCK_QUANTITY] = 0

\* C2: replace_item, add_stock, remove_stock and update_product, called (by
\* the service or directly) with an id that is not in the mapping, change
\* neither the mapping nor the stored document, start no save and no refresh
\* (nothing is shown anew), and return having logged an error for that id.
C2_UnknownIdNoEffect ==
    [][\A id \in IdInputs :
         ( /\ up
           /\ id \notin DOMAIN products
           /\ \/ replace_item(id) \/ handle_replace_item(id)
              \/ \E q \in Quantities :
                    \/ add_stock(id, q) \/ handle_add_stock(id, q)
                    \/ remove_stock(id, q) \/ handle_remove_stock(id, q)
              \/ \E u \in UpdateInputs :
                    update_product(id, u) \/ handle_update_product(id, u) )
         => /\ UNCHANGED <<products, stored, shown, saving, refreshing, failures>>
            /\ last'.op = "error"
            /\ last'.id = id]_vars

\* an error was logged for an id that the (non-empty) mapping does not hold
C2_Witness ==
    /\ up
    /\ last.op = "error"
    /\ last.id = UnknownId
    /\ products # EmptyDict
    /\ saving = 0 /\ refreshing = 0
    /\ stored = SaveDocument(products)

\* C3: an id whose removal by remove_product has been persisted is not in the
\* mapping in any later state in which the coordinator is set up, restarts
\* included, unless add_product has been called for it since.
C3_RemovalPermanent == up => (removed \cap DOMAIN products = {})

\* C4: set-up after a save loads exactly the mapping the last successful save
\* wrote, the empty mapping included.
C4_RoundTrip ==
    [][(~up /\ up' /\ stored # <<>>) => products' = stored["products"]]_vars

\* C5: every mutation of the mapping is followed by a write of the whole
\* mapping and then by a notification of the listeners, in that order and
\* whether or not the write succeeds: a change of the mapping starts a save;
\* a call leaves its save only by a write (which stores the mapping or
\* fails), without having notified yet; it leaves its refresh only by showing
\* the listeners the mapping; so with no call in flight the listeners have
\* been shown the mapping, and with no save pending and no failed write the
\* stored document is the mapping.
C5_PersistThenNotify ==
    /\ [](up /\ saving = 0 /\ refreshing = 0 => shown = products)
    /\ [](up /\ saving = 0 /\ failures = 0 => stored = SaveDocument(products))
    /\ [][(up /\ up' /\ (products' # products \/ (last' # last /\ last'.op \in Verbs)))
            => /\ saving' = saving + 1 /\ refreshing' = refreshing
               /\ stored' = stored /\ shown' = shown]_vars
    /\ [][(up /\ up' /\ saving' < saving)
            => /\ refreshing' = refreshing + 1
               /\ stored' = SaveDocument(products) \/ failures' = failures + 1
               /\ shown' = shown /\ products' = products]_vars
    /\ [][(up /\ up' /\ refreshing' < refreshing)
            => /\ saving' = saving
               /\ shown' = products /\ products' = products]_vars

\* a call has changed the mapping and written it, and has not notified yet
C5_Witness ==
    /\ up
    /\ saving = 0 /\ refreshing = 1
    /\ last.op \in Verbs
    /\ stored = SaveDocument(products)
    /\ shown # products

\* C6 as stated: no mutation changes the mapping while the save of another
\* is pending.
C6_NoInterleaving ==
    [][(up /\ up' /\ saving > 0) => products' = products]_vars

\* C6, amended: a mutation may change the mapping while the save of another
\* is pending, and every save writes the whole mapping as it is when the
\* write happens, the changes of the calls whose own save is still pending
\* included; so whenever no save is pending the stored document is the
\* mapping.
C6_SavesWriteWholeMapping ==
    /\ [](up /\ saving = 0 => stored = SaveDocument(products))
    /\ [][(up /\ up' /\ saving' < saving) => stored' = SaveDocument(products')]_vars

\* a second call changed the stock while the first one's save was pending,
\* and the first one's save has written the second one's change
C6_Witness ==
    /\ up
    /\ saving = 1 /\ refreshing = 1
    /\ last.op \in {"add_stock", "remove_stock", "replace_item"}
    /\ last.old # Stock(products, last.id)
    /\ stored = SaveDocument(products)
    /\ shown # products

\* C7: a failed write of a mutation's save is not an error of the call (the
\* call goes on to its refresh), leaves the mapping as the mutation made it
\* and the stored document as it was; and every write that succeeds stores
\* the whole mapping, that mutation's effect included.
C7_FailedSaveStands ==
    /\ [][(up /\ up' /\ failures' > failures)
            => /\ products' = products /\ stored' = stored
               /\ saving' = saving - 1 /\ refreshing' = refreshing + 1]_vars
    /\ [][(up /\ up' /\ saving' < saving /\ failures' = failures)
            => stored' = SaveDocument(products) /\ products' = products]_vars
    /\ [](up /\ saving = 0 /\ refreshing = 0 => shown = products)

\* a write has failed, two calls have left their saves, and the stored
\* document is the mapping with the changes of both
C7_Witness ==
    /\ up
    /\ failures = 1
    /\ saving = 0 /\ refreshing = 2
    /\ last.op \in {"add_stock", "remove_stock", "replace_item"}
    /\ last.old # Stock(products, last.id)
    /\ stored = SaveDocument(products)
    /\ products # shown

\* C8: replace_item (by the service or directly) on a product of the mapping
\* sets its stock to max(0, stock - 1) and its last replacement date to
\* today's date in ISO format, also when the stock is 0, and goes on to save.
C8_ReplaceItem ==
    [][\A id \in IdInputs :
         ( /\ up
           /\ id \in DOMAIN products
           /\ replace_item(id) \/ handle_replace_item(id) )
         => /\ id \in DOMAIN products'
            /\ products'[id][CONF_STOCK_QUANTITY]
                 = Clamped(Get(products[id], CONF_STOCK_QUANTITY, 0) - 1)
            /\ products'[id][CONF_LAST_REPLACEMENT_DATE] = FromOrdinal(today)
            /\ \A k \in DOMAIN products[id] \ {CONF_STOCK_QUANTITY, CONF_LAST_REPLACEMENT_DATE} :
                  products'[id][k] = products[id][k]
            /\ last'.op = "replace_item"
            /\ saving' = saving + 1]_vars

\* replace_item has acted on a product without stock that had no replacement
\* date: the stock is still 0 and the date is today's
C8_Witness ==
    /\ up
    /\ last.op = "replace_item"
    /\ last.old = 0
    /\ CONF_LAST_REPLACEMENT_DATE \notin DOMAIN entry
    /\ products[last.id][CONF_STOCK_QUANTITY] = 0
    /\ products[last.id][CONF_LAST_REPLACEMENT_DATE] = <<2024, 1, 16>>

\* C9: after remove_stock(id, q) on a product of the mapping the stock is
\* max(0, old stock - q).
C9_RemoveStock ==
    last.op = "remove_stock"
    => /\ last.id \in DOMAIN products
       /\ products[last.id][CONF_STOCK_QUANTITY] = Clamped(last.old - last.quantity)

\* remove_stock has acted with a quantity larger than a positive stock
C9_Witness ==
    /\ last.op = "remove_stock"
    /\ last.old > 0
    /\ last.quantity > last.old
    /\ products[last.id][CONF_STOCK_QUANTITY] = 0

\* C10: remove_stock(id, q) right after add_stock(id, q) leaves the stock that
\* the product had before the add_stock.
C10_AddThenRemove ==
    last.undoes
    => /\ last.id \in DOMAIN products
       /\ products[last.id][CONF_STOCK_QUANTITY] = last.orig

\* add_stock and then remove_stock of the same positive quantity have acted
\* on a product without stock
C10_Witness ==
    /\ last.undoes
    /\ last.quantity > 0
    /\ last.orig = 0
    /\ products[last.id][CONF_STOCK_QUANTITY] = 0

\* the fields a call of the update_product service supplies
Supplied(data) == [k \in (DOMAIN data) \ {CONF_PRODUCT_ID} |-> data[k]]

\* C11: the update_product service on a product of the mapping gives every
\* supplied key the supplied value and leaves every other field of the
\* record, and every other record, as it was.
C11_UpdateOnlySupplied ==
    [][\A data \in UpdateCallData :
         LET id == data[CONF_PRODUCT_ID]
             fields == Supplied(data)
         IN  ( /\ up
               /\ id \in DOMAIN products
               /\ handle_update_product(id, ServiceUpdates(data)) )
             => /\ DOMAIN products' = DOMAIN products
                /\ DOMAIN products'[id] = (DOMAIN products[id]) \cup (DOMAIN fields)
                /\ \A k \in DOMAIN products'[id] :
                      products'[id][k] = IF k \in DOMAIN fields THEN fields[k]
                                         ELSE products[id][k]
                /\ \A other \in (DOMAIN products) \ {id} :
                      products'[other] = products[other]]_vars

\* an update that supplied only the name has acted on the cyclical product:
\* the name is the new one and the other fields are those of the entry
C11_Witness ==
    /\ up
    /\ last.op = "update_product"
    /\ last.id \in DOMAIN products
    /\ products[last.id] = DictSet(MigratedRecord(entry), CONF_PRODUCT_NAME, NameT)
    /\ products[last.id][CONF_LAST_REPLACEMENT_DATE] = Date0
    /\ products[last.id][CONF_STOCK_QUANTITY] = MaxStock

\* the record holds a string under the date key, an integer under the interval key
HasDate(rec) == Get(rec, CONF_LAST_REPLACEMENT_DATE, NoneStr) # NoneStr

HasInterval(rec) == Get(rec, CONF_REPLACEMENT_INTERVAL_DAYS, NoneInt) # NoneInt

\* the record's date parses, its interval is positive, and the interval
\* after the date is a date of the calendar
ValidSchedule(rec) ==
    /\ HasDate(rec) /\ IsoParses(rec[CONF_LAST_REPLACEMENT_DATE])
    /\ HasInterval(rec) /\ rec[CONF_REPLACEMENT_INTERVAL_DAYS] > 0
    /\ ToOrdinal(rec[CONF_LAST_REPLACEMENT_DATE][1], rec[CONF_LAST_REPLACEMENT_DATE][2],
                 rec[CONF_LAST_REPLACEMENT_DATE][3])
         + rec[CONF_REPLACEMENT_INTERVAL_DAYS] <= ToOrdinal(9999, 12, 31)

C13_AbsentExactly ==
    [][\A id \in IdInputs :
         native_value(id)
         => /\ reading'.outcome \in {"days", "none", "none_logged"}
            /\ reading'.outcome # "days"
                 <=> \/ id \notin DOMAIN products
                     \/ ~HasDate(products[id])
                     \/ ~HasInterval(products[id])
                     \/ ~IsoParses(products[id][CONF_LAST_REPLACEMENT_DATE])]_vars

\* C14: no record holds a last replacement date that does not parse: every
\* path that supplies a date (the creation flow, the options flow, the
\* update_product service) rejects an unparsable one before update_product.
C14_NoUnparsableDateStored ==
    \A id \in DOMAIN products :
        HasDate(products[id]) => IsoParses(products[id][CONF_LAST_REPLACEMENT_DATE])

\* C15: every record whose is_cyclical flag is true holds a date that parses
\* and an interval greater than 0.
C15_CyclicalHasSchedule ==
    \A id \in DOMAIN products :
        Get(products[id], CONF_IS_CYCLICAL, FALSE)
        => /\ HasDate(products[id])
           /\ IsoParses(products[id][CONF_LAST_REPLACEMENT_DATE])
           /\ HasInterval(products[id])
           /\ products[id][CONF_REPLACEMENT_INTERVAL_DAYS] > 0

\* C16: a record whose is_cyclical flag is false holds neither a last
\* replacement date nor an interval (a record without the flag is read as
\* cyclical, as the sensor platform reads it).
C16_ScheduleOnlyIfCyclical ==
    \A id \in DOMAIN products :
        ~Get(products[id], CONF_IS_CYCLICAL, TRUE)
        => ~HasDate(products[id]) /\ ~HasInterval(products[id])

\* C18: the record that set-up imports from the config entry holds every
\* field of the entry's data with the entry's value, track_stock and
\* is_cyclical included, and a product created as non-cyclical gets no
\* days-until-replacement sensor.
C18_ImportKeepsFields ==
    [][(~up /\ up' /\ NeedsMigration(entry, LoadProducts(stored)))
         => LET product_id == entry[CONF_PRODUCT_ID]
            IN  /\ product_id \in DOMAIN products'
                /\ \A k \in DOMAIN entry :
                      /\ k \in DOMAIN products'[product_id]
                      /\ products'[product_id][k] = entry[k]
                /\ ~entry[CONF_IS_CYCLICAL] => product_id \notin days_sensors']_vars

\* C17: no two config entries of the domain have the same product id,
\* whatever names the creation flow is given (names with the same slug
\* included); the key of a record is the record's product id; and a call of
\* update_product changes neither the keys of the mapping nor a record's id.
C17_IdNeverDuplicated ==
    /\ [](\A i, j \in 1..Len(configured) :
             i # j => configured[i][CONF_PRODUCT_ID] # configured[j][CONF_PRODUCT_ID])
    /\ [](\A id \in DOMAIN products : products[id][CONF_PRODUCT_ID] = id)
    /\ [][(last' # last /\ last'.op = "update_product")
            => /\ DOMAIN products' = DOMAIN products
               /\ \A id \in DOMAIN products :
                     products'[id][CONF_PRODUCT_ID] = products[id][CONF_PRODUCT_ID]]_vars

\* "A B" is configured and has been renamed, a second product has been
\* created, and the creation of "A_B" has just been refused
C17_Witness ==
    /\ up
    /\ last.op = "already_configured"
    /\ last.id = Slug(NameA_B)
    /\ entry[CONF_PRODUCT_NAME] = NameAB
    /\ Len(configured) = 2
    /\ Slug(NameA_B) \in DOMAIN products
    /\ products[Slug(NameA_B)][CONF_PRODUCT_NAME] = NameT

\* C19: a press of the replace button of a product whose stock is 0 or less
\* changes neither the stock nor the date, starts no save and no refresh and
\* logs a warning; the replace_item service on a product of the mapping with
\* stock 0 leaves the stock at 0, sets the date to today's and goes on to save.
C19_ButtonRefusesAtZero ==
    /\ [][\A id \in IdInputs :
            ( /\ up
              /\ id \in entities
              /\ Stock(products, id) <= 0
              /\ async_press(id) )
            => /\ UNCHANGED <<products, stored, shown, saving, refreshing>>
               /\ last'.op = "warning"
               /\ last'.id = id]_vars
    /\ [][\A id \in IdInputs :
            ( /\ up
              /\ id \in DOMAIN products
              /\ Stock(products, id) = 0
              /\ handle_replace_item(id) )
            => /\ products'[id][CONF_STOCK_QUANTITY] = 0
               /\ products'[id][CONF_LAST_REPLACEMENT_DATE] = FromOrdinal(today)
               /\ saving' = saving + 1]_vars

\* the button of a product without stock has been pressed on the day after
\* the service replaced the item at stock 0: the date is still that day's
C19_Witness ==
    /\ up
    /\ last.op = "warning"
    /\ last.id \in DOMAIN products
    /\ products[last.id][CONF_STOCK_QUANTITY] = 0
    /\ products[last.id][CONF_LAST_REPLACEMENT_DATE] = <<2024, 1, 15>>
    /\ FromOrdinal(today) = <<2024, 1, 16>>
    /\ CONF_LAST_REPLACEMENT_DATE \notin DOMAIN entry

\* the stock a call of op with quantity q makes of the stock n
Applied(op, q, n) ==
    IF op = "add_stock" THEN n + q
    ELSE IF op = "remove_stock" THEN Clamped(n - q)
    ELSE Clamped(n - 1)

\* C20: each add_stock, remove_stock and replace_item call, whatever calls are
\* in flight at their save or refresh, makes of the stock in memory what the
\* call makes of it alone, so the stock is that of the calls applied one
\* after another in the order they started; a save and a refresh change no
\* stock; and once no call is in flight the stored document is the mapping.
C20_NoLostUpdate ==
    /\ [][(up /\ up' /\ last' # last
              /\ last'.op \in {"add_stock", "remove_stock", "replace_item"})
            => /\ last'.id \in DOMAIN products
               /\ Stock(products', last'.id)
                    = Applied(last'.op, last'.quantity, Stock(products, last'.id))]_vars
    /\ [][(up /\ up' /\ (saving' < saving \/ refreshing' < refreshing))
            => products' = products]_vars
    /\ [](up /\ saving = 0 /\ refreshing = 0 => stored = SaveDocument(products))

\* two calls are in flight, the second started while the first awaited its
\* save, and the stock holds the changes of both
C20_Witness ==
    /\ up
    /\ saving = 2
    /\ last.op = "remove_stock"
    /\ last.quantity = 1
    /\ last.old = 1
    /\ Stock(shown, last.id) = MaxStock
    /\ Stock(products, last.id) = 0
    /\ stored = SaveDocument(shown)

====
